---------------------------- MODULE Spec2Model ----------------------------
(***************************************************************************)
(* The button / menu / countdown state machine of bin/oled-info.py.        *)
(*                                                                         *)
(* Time is counted in units of 0.05 s, the debounce sleep of the press     *)
(* loop (line 234).  datetime values are kept relative to the start of the *)
(* current press: the program only ever uses the difference                *)
(* button_down - button_down_start (line 241).                             *)
(*                                                                         *)
(* action_time is a Python float.  Its values are modelled bit-exactly as  *)
(* IEEE-754 doubles: a value is <<sign, a2, a1, a0>>, the magnitude being  *)
(* (a2 * 2^48 + a1 * 2^24 + a0) * 2^-56.                                   *)
(***************************************************************************)
EXTENDS Integers, Sequences, FiniteSets, TLC

----------------------------------------------------------------------------
(* Program constants *)

\* time units (0.05 s each) per second
Second == 20

ACTION_INITIAL_TIMEOUT == 10
ACTION_TIMEOUT == 20
\* timedelta(seconds=2)
ACTION_PRESS == 2 * Second
REBOOT_COUNTDOWN == 6
SHUTDOWN_COUNTDOWN == 6
MENU == <<"INFO", "INFO2", "CLOCK", "REBOOT", "SHUTDOWN">>
\* menu_state = None
None == -1
\* index written to menu_state when the reboot countdown is cancelled
RebootCancelState == 0
\* index written to menu_state when the shutdown countdown is cancelled
ShutdownCancelState == 1
led_resting == "0.25"

\* sleeps, in time units
SampleSleep == Second \div 20
TickSleep == Second \div 10
IdleSleep == (4 * Second) \div 10
BootSleep == ACTION_INITIAL_TIMEOUT * Second

----------------------------------------------------------------------------
(* Bounds of the model *)

\* the clock of a press saturates here (above ACTION_PRESS)
MaxNow == 44
\* a sample iteration takes SampleSleep .. SampleSleep + MaxJitter
MaxJitter == 1
\* consecutive clicks counted by the observer
MaxClicks == 6

----------------------------------------------------------------------------
(* IEEE-754 double arithmetic for action_time *)

Limb == 2^24

Min(a, b) == IF a < b THEN a ELSE b

\* an integer n (0 <= n < 2^7) as a double
FloatOfInt(n) == <<1, n * 2^8, 0, 0>>

\* the literal 0.1 = 0x1.999999999999ap-4
Tenth == <<1, 25, 10066329, 10066330>>

IsPositive(x) == x[1] = 1 /\ (x[2] > 0 \/ x[3] > 0 \/ x[4] > 0)

\* magnitude comparison: |x| < |y|
MagLess(x, y) ==
    \/ x[2] < y[2]
    \/ x[2] = y[2] /\ x[3] < y[3]
    \/ x[2] = y[2] /\ x[3] = y[3] /\ x[4] < y[4]

\* |x| - |y| for |x| >= |y|, as <<a2, a1, a0>>
MagSub(x, y) ==
    LET b0 == IF x[4] < y[4] THEN 1 ELSE 0
        d0 == x[4] - y[4] + b0 * Limb
        b1 == IF x[3] - b0 < y[3] THEN 1 ELSE 0
        d1 == x[3] - b0 - y[3] + b1 * Limb
        d2 == x[2] - b1 - y[2]
    IN  <<d2, d1, d0>>

RECURSIVE BitLen(_)
BitLen(n) == IF n = 0 THEN 0 ELSE 1 + BitLen(n \div 2)

\* round a magnitude to 53 significant bits, ties to even
RoundMag(m) ==
    LET bl == BitLen(m[1])
        s  == IF bl > 5 THEN bl - 5 ELSE 0
    IN  IF s = 0 THEN m
        ELSE
          LET p    == 2^s
              r    == m[3] % p
              half == p \div 2
              odd  == (m[3] \div p) % 2 = 1
              up   == r > half \/ (r = half /\ odd)
              a0   == m[3] - r + (IF up THEN p ELSE 0)
              c0   == IF a0 >= Limb THEN 1 ELSE 0
              a1   == m[2] + c0
              c1   == IF a1 >= Limb THEN 1 ELSE 0
          IN  <<m[1] + c1, a1 % Limb, a0 % Limb>>

\* x - y for doubles x >= 0, y >= 0
FloatSub(x, y) ==
    LET neg == MagLess(x, y)
        m   == RoundMag(IF neg THEN MagSub(y, x) ELSE MagSub(x, y))
    IN  <<IF neg THEN -1 ELSE 1, m[1], m[2], m[3]>>


----------------------------------------------------------------------------
(* State *)

VARIABLES
    pc,                 \* position of the single thread of control
    branch,             \* which countdown block is running: lines 246-262 or 263-279
    action_time,        \* line 61, a double
    action_cancel,      \* line 62
    menu_state,         \* line 70, None or an index into MENU (from 0)
    button_down_start,  \* line 73
    button_clicked,     \* line 76
    count,              \* lines 248 / 265
    oled,               \* what oled_display last drew
    led,                \* what the LED was last told
    cmds,               \* the commands handed to subprocess.Popen
    now,                \* datetime.now(), relative to the start of the press
    pressed,            \* button.is_pressed: the physical button
    \* observers: written, never read, by the actions
    held,               \* how long the button has been down in the press being sampled
    shown,              \* the counts rendered by the current countdown
    polls,              \* the button polls made by the current countdown
    sleeps,             \* the one-second sleeps made by the current countdown
    cancelled,          \* "-" or the kind of the countdown the current press cancelled
    repressed,          \* the button went down again after the countdown started
    chain,              \* consecutive clicks since menu_state was None, -1: interrupted
    ticks,              \* timeout ticks since action_time was last armed
    expiries,           \* expiry events since action_time was last armed
    armed,              \* the value action_time was last armed to
    ever_cancelled      \* some countdown has been cancelled

prog == <<pc, branch, action_time, action_cancel, menu_state, button_down_start,
          button_clicked, count, oled, led, cmds, now>>
obs  == <<held, shown, polls, sleeps, cancelled, repressed, chain, ticks,
          expiries, armed, ever_cancelled>>
vars == <<prog, pressed, obs>>

CountdownPcs == {"grace", "render", "sleep"}

\* oled_display(state, count)
Screen(state, n) == [state |-> state, count |-> n]
Blank == Screen("", 0)

\* MENU[i] for a Python index i >= 0
MenuAt(i) == MENU[i + 1]

\* the datetime clock after t more time units
Clock(t) == IF button_down_start = None THEN now ELSE Min(now + t, MaxNow)
\* the observer of the physical hold after t more time units
Hold(t) == IF pressed THEN Min(held + t, MaxNow) ELSE held

----------------------------------------------------------------------------
(* Start-up, lines 189-193 *)

Init ==
    /\ pc = "boot"
    /\ branch = "-"
    /\ action_time = FloatOfInt(ACTION_INITIAL_TIMEOUT)
    /\ action_cancel = FALSE
    /\ menu_state = None
    /\ button_down_start = None
    /\ button_clicked = FALSE
    /\ count = 0
    /\ oled = Screen("BOOTUP", 0)
    /\ led = "pulse(0.4,0.4)"
    /\ cmds = <<>>
    /\ now = 0
    /\ pressed = FALSE
    /\ held = 0
    /\ shown = <<>>
    /\ polls = 0
    /\ sleeps = 0
    /\ cancelled = "-"
    /\ repressed = FALSE
    /\ chain = 0
    /\ ticks = 0
    /\ expiries = 0
    /\ armed = ACTION_INITIAL_TIMEOUT
    /\ ever_cancelled = FALSE

\* time.sleep(ACTION_INITIAL_TIMEOUT); oled_display(); led.value = led_resting
Boot ==
    /\ pc = "boot"
    /\ oled' = Blank
    /\ led' = led_resting
    /\ now' = Clock(BootSleep)
    /\ held' = Hold(BootSleep)
    /\ pc' = "loop"
    /\ UNCHANGED <<branch, action_time, action_cancel, menu_state, button_down_start,
                   button_clicked, count, cmds, pressed>>
    /\ UNCHANGED <<shown, polls, sleeps, cancelled, repressed, chain, ticks,
                   expiries, armed, ever_cancelled>>

----------------------------------------------------------------------------
(* Main loop, first half: lines 199-225 *)

\* a slip of line 203: action_time == 0
ExpiredExactly(t) == t[2] = 0 /\ t[3] = 0 /\ t[4] = 0

\* line 203: action_time <= 0
Expired(t) == ~IsPositive(t)

\* a slip of line 205: the menu position left as it is
ExpiredMenuStateKept == menu_state

\* line 205: menu_state = None
ExpiredMenuState == None

\* slips of line 199: action_time != 0; action_time > ACTION_TIMEOUT
TimeoutRunningNonZero ==
    action_time[2] # 0 \/ action_time[3] # 0 \/ action_time[4] # 0
TimeoutRunningAboveReset ==
    IsPositive(action_time) /\ MagLess(FloatOfInt(ACTION_TIMEOUT), action_time)

\* line 199: if action_time > 0
TimeoutRunning == IsPositive(action_time)

\* if action_time > 0: one 0.1 s tick, with the expiry check
Tick ==
    /\ pc = "loop"
    /\ TimeoutRunning
    /\ LET t == FloatSub(action_time, Tenth)
       IN  /\ action_time' = t
           /\ IF Expired(t)
                THEN /\ oled' = Blank
                     /\ menu_state' = ExpiredMenuState
                     /\ expiries' = Min(expiries + 1, 2)
                     /\ chain' = 0
                ELSE UNCHANGED <<oled, menu_state, expiries, chain>>
    /\ ticks' = ticks + 1
    /\ now' = Clock(TickSleep)
    /\ held' = Hold(TickSleep)
    /\ pc' = "poll"
    /\ UNCHANGED <<branch, action_cancel, button_down_start, button_clicked, count,
                   led, cmds, pressed>>
    /\ UNCHANGED <<shown, polls, sleeps, cancelled, repressed, armed, ever_cancelled>>

\* else: the disk activity poll, the LED, and a 0.4 s sleep
IdlePoll ==
    /\ pc = "loop"
    /\ ~TimeoutRunning
    /\ \E disk_active \in BOOLEAN :
         led' = IF disk_active THEN "pulse(0.1,0.1)" ELSE led_resting
    /\ now' = Clock(IdleSleep)
    /\ held' = Hold(IdleSleep)
    /\ pc' = "poll"
    /\ UNCHANGED <<branch, action_time, action_cancel, menu_state, button_down_start,
                   button_clicked, count, oled, cmds, pressed>>
    /\ UNCHANGED <<shown, polls, sleeps, cancelled, repressed, chain, ticks,
                   expiries, armed, ever_cancelled>>

----------------------------------------------------------------------------
(* The press loop: while button.is_pressed, lines 227-282 *)

\* slips of line 245: the threshold taken in the wrong unit (0.1 s for 2 s),
\* the comparison inclusive
LongPressWrongUnit(press_delta) == press_delta > ACTION_PRESS \div Second
LongPressInclusive(press_delta) == press_delta >= ACTION_PRESS

\* press_delta > ACTION_PRESS
LongPress(press_delta) == press_delta > ACTION_PRESS

\* a slip of line 239: the start-up constant used
RearmValueInitial == ACTION_INITIAL_TIMEOUT

\* line 239: action_time = ACTION_TIMEOUT
RearmValue == ACTION_TIMEOUT

\* a slip of lines 236-237: the INFO screen drawn on every iteration
SampleScreenAlways == Screen("INFO", 0)

\* lines 236-237: if action_time <= 0: oled_display("INFO")
SampleScreen == IF IsPositive(action_time) THEN oled ELSE Screen("INFO", 0)

\* lines 229-241 of one iteration that took d time units: the timestamps, the
\* debounce sleep, the INFO screen when the timeout had run out, the re-arming
Sampled(d) ==
    /\ pc = "poll"
    /\ pressed
    /\ button_down_start' = IF button_down_start = None THEN now ELSE button_down_start
    /\ now' = Min(now + d, MaxNow)
    /\ action_time' = FloatOfInt(RearmValue)
    /\ held' = Min(held + d, MaxNow)
    /\ chain' = IF held' > ACTION_PRESS THEN -1 ELSE chain
    /\ ticks' = 0
    /\ expiries' = 0
    /\ armed' = ACTION_TIMEOUT
    /\ UNCHANGED <<action_cancel, count, led, cmds, pressed, ever_cancelled>>

\* button_down - button_down_start of the iteration being run
PressDelta == IF button_down_start = None THEN 0 ELSE now - button_down_start

\* line 245
HeldLongEnough == ~action_cancel /\ LongPress(PressDelta)

SampleDelays == SampleSleep .. (SampleSleep + MaxJitter)

\* an iteration that takes the else branch of line 280: button_clicked = True
SampleClick ==
    /\ \E d \in SampleDelays : Sampled(d)
    /\ ~HeldLongEnough
    /\ oled' = SampleScreen
    /\ button_clicked' = TRUE
    /\ pc' = "poll"
    /\ UNCHANGED <<branch, menu_state, shown, polls, sleeps, cancelled, repressed>>

\* line 246 with menu_state = None: MENU[None] raises TypeError
SampleFault ==
    /\ \E d \in SampleDelays : Sampled(d)
    /\ HeldLongEnough
    /\ menu_state = None
    /\ oled' = SampleScreen
    /\ pc' = "fault"
    /\ UNCHANGED <<branch, menu_state, button_clicked, shown, polls, sleeps,
                   cancelled, repressed>>

\* lines 246 and 263 both false: the iteration ends, nothing is flagged
SampleHold ==
    /\ \E d \in SampleDelays : Sampled(d)
    /\ HeldLongEnough
    /\ menu_state # None
    /\ MenuAt(menu_state) \notin {"REBOOT", "SHUTDOWN"}
    /\ oled' = SampleScreen
    /\ pc' = "poll"
    /\ UNCHANGED <<branch, menu_state, button_clicked, shown, polls, sleeps,
                   cancelled, repressed>>

\* line 246 or line 263 true: the countdown block is entered
SampleCountdown ==
    /\ \E d \in SampleDelays : Sampled(d)
    /\ HeldLongEnough
    /\ menu_state # None
    /\ MenuAt(menu_state) \in {"REBOOT", "SHUTDOWN"}
    /\ oled' = SampleScreen
    /\ branch' = MenuAt(menu_state)
    /\ pc' = "grace"
    /\ shown' = <<>>
    /\ polls' = 0
    /\ sleeps' = 0
    /\ repressed' = FALSE
    /\ UNCHANGED <<menu_state, button_clicked, cancelled>>

----------------------------------------------------------------------------
(* The countdown blocks, lines 247-262 and 264-279 *)

CountdownOf(b) == IF b = "REBOOT" THEN REBOOT_COUNTDOWN ELSE SHUTDOWN_COUNTDOWN
RenderingOf(b) == IF b = "REBOOT" THEN "REBOOTING" ELSE "SHUTTING_DOWN"
\* a slip of line 277: the command of line 260 copied with the block
CommandOfCopied(b) == "sudo reboot now"
CommandOf(b)   == IF b = "REBOOT" THEN "sudo reboot now" ELSE "sudo shutdown now"
CancelStateOf(b) == IF b = "REBOOT" THEN RebootCancelState ELSE ShutdownCancelState

\* a slip of lines 250-251: count decremented before it is drawn
DisplayedCountDecremented(c) == c - 1

\* lines 250 / 267: the count handed to oled_display
DisplayedCount(c) == c

\* a slip of line 249: while count >= 0
CountdownContinuesInclusive(c) == c >= 0

\* lines 249 / 266: while count > 0
CountdownContinues(c) == c > 0

\* a slip of lines 253-255: the poll left out
CountdownPollIgnored == FALSE

\* lines 253 / 270: if button.is_pressed
CountdownPollPressed == pressed

\* time.sleep(1); count = REBOOT_COUNTDOWN; the loop is entered, count being 6
Grace ==
    /\ pc = "grace"
    /\ count' = CountdownOf(branch)
    /\ now' = Clock(Second)
    /\ held' = Hold(Second)
    /\ sleeps' = sleeps + 1
    /\ pc' = "render"
    /\ UNCHANGED <<branch, action_time, action_cancel, menu_state, button_down_start,
                   button_clicked, oled, led, cmds, pressed>>
    /\ UNCHANGED <<shown, polls, cancelled, repressed, chain, ticks, expiries, armed,
                   ever_cancelled>>

\* oled_display("REBOOTING", count); count -= 1
Render ==
    /\ pc = "render"
    /\ oled' = Screen(RenderingOf(branch), DisplayedCount(count))
    /\ shown' = Append(shown, DisplayedCount(count))
    /\ count' = count - 1
    /\ pc' = "sleep"
    /\ UNCHANGED <<branch, action_time, action_cancel, menu_state, button_down_start,
                   button_clicked, led, cmds, now, pressed>>
    /\ UNCHANGED <<held, polls, sleeps, cancelled, repressed, chain, ticks, expiries,
                   armed, ever_cancelled>>

\* time.sleep(1) and the poll of the button, common to the three outcomes
Polled ==
    /\ pc = "sleep"
    /\ now' = Clock(Second)
    /\ held' = Hold(Second)
    /\ sleeps' = sleeps + 1
    /\ polls' = polls + 1
    /\ UNCHANGED <<action_time, button_down_start, button_clicked, count, led,
                   pressed, shown, repressed, chain, ticks, expiries, armed>>

\* button.is_pressed: action_cancel = True; break; menu_state = 0 (or 1);
\* after the reboot block, line 263 is evaluated on the new menu_state
PollCancel ==
    /\ Polled
    /\ CountdownPollPressed
    /\ action_cancel' = TRUE
    /\ menu_state' = CancelStateOf(branch)
    /\ IF branch = "REBOOT" /\ MenuAt(menu_state') = "SHUTDOWN"
         THEN pc' = "grace" /\ branch' = "SHUTDOWN"
         ELSE pc' = "poll" /\ branch' = "-"
    /\ cancelled' = branch
    /\ ever_cancelled' = TRUE
    /\ UNCHANGED <<oled, cmds>>

\* not pressed and count > 0: the next round of the while loop
PollContinue ==
    /\ Polled
    /\ ~CountdownPollPressed
    /\ CountdownContinues(count)
    /\ pc' = "render"
    /\ UNCHANGED <<branch, action_cancel, menu_state, oled, cmds, cancelled,
                   ever_cancelled>>

\* not pressed and count = 0: oled_display(); Popen(cmd); exit()
PollExecute ==
    /\ Polled
    /\ ~CountdownPollPressed
    /\ ~CountdownContinues(count)
    /\ oled' = Blank
    /\ cmds' = Append(cmds, CommandOf(branch))
    /\ pc' = "exited"
    /\ UNCHANGED <<branch, action_cancel, menu_state, cancelled, ever_cancelled>>

----------------------------------------------------------------------------
(* After the press loop: lines 284-300 *)

\* a slip of line 294: the wrap one screen early
NextMenuStateWrapsEarly(m) == IF m = None \/ m >= Len(MENU) - 2 THEN 0 ELSE m + 1

\* lines 294-299
NextMenuState(m) == IF m = None \/ m = Len(MENU) - 1 THEN 0 ELSE m + 1

\* a slip of line 300: the INFO screen of line 237 drawn again
ClickRenderInfo(m) == Screen("INFO", 0)

\* line 300: oled_display(MENU[menu_state])
ClickRender(m) == Screen(MenuAt(m), 0)

\* a slip of line 286: the flag left as it is
CancelKept == action_cancel

\* line 286: action_cancel = False
CancelAfterClick == FALSE

\* a slip of line 292: the timestamp left as it is
StartKept == button_down_start

\* line 292: button_down_start = None
StartAfterClick == None

\* a slip of line 284: the handler run on every iteration
ClickPendingAlways == TRUE

\* line 284: if button_clicked
ClickPending == button_clicked

\* the press loop ends with button_clicked set
HandleClick ==
    /\ pc = "poll"
    /\ ~pressed
    /\ ClickPending
    /\ action_cancel' = CancelAfterClick
    /\ button_clicked' = FALSE
    /\ button_down_start' = StartAfterClick
    /\ now' = IF button_down_start' = None THEN 0 ELSE now
    /\ menu_state' = NextMenuState(menu_state)
    /\ oled' = ClickRender(menu_state')
    /\ pc' = "loop"
    /\ chain' = IF chain = -1 \/ chain >= MaxClicks THEN -1 ELSE chain + 1
    /\ held' = 0
    /\ cancelled' = "-"
    /\ shown' = <<>>
    /\ polls' = 0
    /\ sleeps' = 0
    /\ repressed' = FALSE
    /\ UNCHANGED <<branch, action_time, count, led, cmds, pressed, ticks, expiries,
                   armed, ever_cancelled>>

\* the press loop did not run, or ran without flagging a click
NoClick ==
    /\ pc = "poll"
    /\ ~pressed
    /\ ~ClickPending
    /\ pc' = "loop"
    /\ held' = 0
    /\ UNCHANGED <<branch, action_time, action_cancel, menu_state, button_down_start,
                   button_clicked, count, oled, led, cmds, now, pressed>>
    /\ UNCHANGED <<shown, polls, sleeps, cancelled, repressed, chain, ticks,
                   expiries, armed, ever_cancelled>>

----------------------------------------------------------------------------
(* The operator *)

Press ==
    /\ ~pressed
    /\ pressed' = TRUE
    /\ held' = IF button_down_start = None THEN 0 ELSE held
    /\ repressed' = (repressed \/ pc \in CountdownPcs)
    /\ UNCHANGED prog
    /\ UNCHANGED <<shown, polls, sleeps, cancelled, chain, ticks, expiries, armed,
                   ever_cancelled>>

Release ==
    /\ pressed
    /\ pressed' = FALSE
    /\ UNCHANGED prog
    /\ UNCHANGED obs

----------------------------------------------------------------------------

Step ==
    \/ Boot
    \/ Tick
    \/ IdlePoll
    \/ SampleClick
    \/ SampleFault
    \/ SampleHold
    \/ SampleCountdown
    \/ Grace
    \/ Render
    \/ PollCancel
    \/ PollContinue
    \/ PollExecute
    \/ HandleClick
    \/ NoClick

Next == Step \/ Press \/ Release

Spec == Init /\ [][Next]_vars

----------------------------------------------------------------------------
(* Properties *)

Actionable == {"REBOOT", "SHUTDOWN"}

\* current(): "none" or the screen the menu is on
CurrentScreen == IF menu_state = None THEN "none" ELSE MenuAt(menu_state)

\* 6, 5, .. 1
RECURSIVE Descending(_)
Descending(n) == IF n = 0 THEN <<>> ELSE <<n>> \o Descending(n - 1)

\* C1: a press whose hold has lasted at most 2 s never has a countdown
\* running, and a countdown only ever runs from the REBOOT or SHUTDOWN screen:
\* whenever a countdown is in progress the button has been down for more than
\* 2 s in this press and the menu is on an actionable screen.
C1_CountdownOnlyByLongPressOnActionable ==
    pc \in CountdownPcs =>
        /\ held > ACTION_PRESS
        /\ CurrentScreen \in Actionable
        /\ branch = CurrentScreen

\* a press sampled beyond 2 s on an informational screen, no countdown started
C1_Witness ==
    /\ pc = "poll"
    /\ PressDelta > ACTION_PRESS + SampleSleep + MaxJitter
    /\ ~action_cancel
    /\ CurrentScreen = "CLOCK"
    /\ cancelled = "-"

\* C2: a countdown whose polls never find the button pressed renders
\* 6,5,4,3,2,1, then issues its command exactly once, after the grace sleep and
\* 6 more one-second sleeps, and the controller has then terminated: no step of
\* the program follows.
C2_UncancelledCountdownExecutesOnce ==
    [][ /\ (polls' = REBOOT_COUNTDOWN /\ cancelled' = "-") => pc' = "exited"
        /\ (pc # "exited" /\ pc' = "exited") =>
              /\ shown' = Descending(REBOOT_COUNTDOWN)
              /\ polls' = REBOOT_COUNTDOWN
              /\ sleeps' = 1 + REBOOT_COUNTDOWN
              /\ cmds' = <<CommandOf(branch)>>
              /\ oled' = Blank
        /\ pc = "exited" => UNCHANGED prog
      ]_vars

C2_Witness ==
    /\ pc = "exited"
    /\ cmds = <<"sudo shutdown now">>
    /\ shown = <<6, 5, 4, 3, 2, 1>>
    /\ pressed

\* C3: when the poll of countdown step k finds the button pressed, the
\* countdown stops there, the last count drawn is 6-k+1, action_cancel is set
\* and no command has been issued; none is while that cancellation stands.
C3_CancelAtStepK ==
    [][ /\ (pc = "sleep" /\ polls' = polls + 1 /\ pressed) =>
              /\ cancelled' = branch
              /\ pc' \notin CountdownPcs
              /\ action_cancel'
              /\ polls' \in 1 .. REBOOT_COUNTDOWN
              /\ Len(shown') = polls'
              /\ oled' = Screen(RenderingOf(branch), REBOOT_COUNTDOWN - polls' + 1)
        /\ cancelled' # "-" => cmds' = <<>> /\ pc' # "exited"
      ]_vars

C3_Witness ==
    /\ cancelled = "REBOOT"
    /\ polls = 3
    /\ oled = Screen("REBOOTING", 4)
    /\ action_cancel

\* C4: once the press that cancelled a countdown has been released and
\* handled, the menu is on, and the display shows, the screen the countdown
\* was started from.
C4_CancelReturnsToInterruptedScreen ==
    [][ (pc = "poll" /\ cancelled # "-" /\ pc' = "loop") =>
            (CurrentScreen' = cancelled /\ oled' = Screen(cancelled, 0)) ]_vars

\* C5 as stated: a hold of more than 2 s on REBOOT or SHUTDOWN, with no other
\* press after it, runs the countdown to its end; so a countdown is only ever
\* cancelled by a press begun after it started.
C5_AnyLongHoldExecutes == cancelled # "-" => repressed

\* program steps the countdown still has to take
Remaining ==
    CASE pc = "grace"  -> 2 * CountdownOf(branch) + 1
      [] pc = "render" -> 2 * count
      [] pc = "sleep"  -> 2 * count + 1
      [] OTHER         -> 0

\* C5, amended: a countdown that has started (a sample of the held button
\* measured more than 2 s on REBOOT or SHUTDOWN) never stalls, every step of
\* it brings its end nearer, and it ends in one of two ways only: a poll finds
\* the button pressed and it is cancelled, or no poll does, the counts 6..1
\* have been drawn and the command of that screen is issued.
C5_CountdownExecutesUnlessPolledPressed ==
    [][ /\ pc \in CountdownPcs => ENABLED Step
        /\ (pc \in CountdownPcs /\ prog' # prog) =>
              \/ pc' \in CountdownPcs /\ Remaining' < Remaining /\ cmds' = <<>>
              \/ pc = "sleep" /\ pressed /\ cancelled' = branch /\ cmds' = <<>>
              \/ /\ ~pressed
                 /\ pc' = "exited"
                 /\ shown' = Descending(CountdownOf(branch))
                 /\ cmds' = <<CommandOf(branch)>>
                 /\ branch = CurrentScreen
      ]_vars

\* the button released during the countdown and never pressed again
C5_Witness ==
    /\ pc = "exited"
    /\ ~repressed
    /\ ~pressed
    /\ cmds = <<"sudo reboot now">>

\* C6 as stated: Len(MENU) consecutive clicks from "none" end on INFO
C6_FiveClicksReachInfo == chain = Len(MENU) => CurrentScreen = "INFO"

\* C6, amended: k consecutive clicks from "none" end on screen k of the
\* menu, counted cyclically: Len(MENU) clicks end on the last screen,
\* SHUTDOWN, and one more click returns to the first, INFO.
C6_ClicksCycle ==
    /\ chain \in 1 .. MaxClicks => menu_state = (chain - 1) % Len(MENU)
    /\ chain = Len(MENU) => CurrentScreen = "SHUTDOWN"
    /\ chain = Len(MENU) + 1 => CurrentScreen = "INFO"

C6_Witness == chain = Len(MENU) + 1 /\ CurrentScreen = "INFO" /\ pc = "loop"

\* the screen after a click, by the order of the menu
ScreenAfter(scr) ==
    CASE scr = "none"     -> "INFO"
      [] scr = "INFO"     -> "INFO2"
      [] scr = "INFO2"    -> "CLOCK"
      [] scr = "CLOCK"    -> "REBOOT"
      [] scr = "REBOOT"   -> "SHUTDOWN"
      [] scr = "SHUTDOWN" -> "INFO"

\* C7: handling a click (the button down for at most 2 s) moves the menu one
\* step, from "none" or SHUTDOWN to INFO and otherwise to the next screen, and
\* draws the screen the menu is then on.
C7_ClickAdvancesOneStep ==
    [][ (pc = "poll" /\ button_clicked /\ held <= ACTION_PRESS /\ pc' = "loop") =>
            /\ CurrentScreen' = ScreenAfter(CurrentScreen)
            /\ oled' = Screen(CurrentScreen', 0) ]_vars

C7_Witness ==
    /\ pc = "loop"
    /\ chain = 4
    /\ CurrentScreen = "REBOOT"
    /\ oled = Screen("REBOOT", 0)

\* ticks of 0.1 s in ACTION_TIMEOUT seconds
ExpiryTick == ACTION_TIMEOUT * (Second \div TickSleep)

\* C8: after action_time is armed the expiry fires once: on the tick that
\* takes it from above zero to not above zero, which is tick 200 when armed to
\* 20; it sets menu_state to None and draws the blank screen; it has fired by
\* tick 200 and does not fire again until a press arms the timeout again.
C8_ExpiryFiresOnce ==
    [][ /\ expiries' > expiries =>
              /\ IsPositive(action_time) /\ ~IsPositive(action_time')
              /\ menu_state' = None
              /\ oled' = Blank
              /\ armed = ACTION_TIMEOUT => ticks' = ExpiryTick
        /\ expiries' <= 1
        /\ (armed' = ACTION_TIMEOUT /\ ticks' >= ExpiryTick) => expiries' = 1
      ]_vars

\* the timeout armed by a press has expired and idle polls have run since
C8_Witness ==
    /\ armed = ACTION_TIMEOUT
    /\ expiries = 1
    /\ ticks = ExpiryTick
    /\ led = "pulse(0.1,0.1)"
    /\ pc = "loop"

\* C9 as stated: no countdown starts while the button is still held
C9_NoCountdownWhileHeld ==
    [][ (pc = "poll" /\ pc' \in CountdownPcs) => ~pressed ]_vars

\* C9, amended: a press is classified while it is held: an iteration of the
\* press loop, which runs only with the button read as pressed, starts a
\* countdown exactly when the press so far measures more than 2 s,
\* action_cancel is clear and the menu is on REBOOT or SHUTDOWN; and a
\* countdown starts in no other way.
C9_ClassifiedWhileHeld ==
    [][ /\ (pc = "poll" /\ pressed /\ pressed') =>
              (pc' \in CountdownPcs <=>
                  /\ PressDelta > ACTION_PRESS
                  /\ ~action_cancel
                  /\ CurrentScreen \in Actionable)
        /\ (pc \notin CountdownPcs /\ pc' \in CountdownPcs) =>
              (pc = "poll" /\ pressed /\ pressed')
      ]_vars

\* a countdown started under a hold that has not been released
C9_Witness == pc = "grace" /\ pressed /\ ~repressed /\ sleeps = 0

\* C10: action_cancel is set only inside the press that cancelled a
\* countdown; it is reset only by the handling of that press once released,
\* so it is false whenever the main loop is entered, and a later long press on
\* an actionable screen starts a countdown again.
C10_CancelFlagConsumed ==
    [][ /\ pc' = "loop" => ~action_cancel'
        /\ action_cancel' => (cancelled' # "-" /\ button_down_start' # None)
        /\ (action_cancel /\ ~action_cancel') =>
              (pc = "poll" /\ ~pressed /\ pc' = "loop")
        /\ (action_cancel /\ pc = "poll" /\ pressed /\ pressed') => pc' = "poll"
      ]_vars

\* a countdown started after an earlier one was cancelled
C10_Witness ==
    /\ ever_cancelled
    /\ pc = "grace"
    /\ ~action_cancel
    /\ cancelled = "-"

\* a sample of the press being handled has measured more than 2 s
SampledLong == PressDelta > ACTION_PRESS + SampleSleep + MaxJitter

\* C11: only a click advances the menu: handling the release of a press that
\* was sampled beyond 2 s (on an informational screen, or the press that
\* cancelled a countdown) leaves menu_state as it was.
C11_LongPressDoesNotAdvance ==
    [][ (pc = "poll" /\ SampledLong /\ pc' = "loop") => menu_state' = menu_state ]_vars

\* C12: holding the button beyond 2 s with menu_state None starts no
\* countdown, issues no command, and the controller neither terminates nor
\* faults.
C12_LongPressOnNoneKeepsRunning ==
    [][ (pc = "poll" /\ pressed /\ pressed' /\ menu_state = None) =>
            (pc' = "poll" /\ cmds' = <<>>) ]_vars

\* C13: the command issued is the one of the screen the long press was made
\* on, after all the polls of an uncancelled countdown; a running countdown is
\* the one of the screen the menu is on; and once a countdown is cancelled no
\* countdown runs until that press has been released and handled.
C13_ActionMatchesScreen ==
    [][ /\ cmds' # cmds =>
              /\ cancelled' = "-"
              /\ polls' = CountdownOf(CurrentScreen)
              /\ \/ CurrentScreen = "REBOOT" /\ cmds' = <<"sudo reboot now">>
                 \/ CurrentScreen = "SHUTDOWN" /\ cmds' = <<"sudo shutdown now">>
        /\ pc' \in CountdownPcs =>
              /\ CurrentScreen' \in Actionable
              /\ oled'.state \in {"REBOOT", "SHUTDOWN"} =>
                    oled'.state = CurrentScreen'
              /\ oled'.state \in {"REBOOTING", "SHUTTING_DOWN"} =>
                    oled'.state = RenderingOf(CurrentScreen')
        /\ cancelled' # "-" => pc' \notin CountdownPcs
      ]_vars

\* the shutdown command issued from SHUTDOWN, after a reboot countdown was cancelled
C13_Witness ==
    /\ pc = "exited"
    /\ CurrentScreen = "SHUTDOWN"
    /\ cmds = <<"sudo shutdown now">>
    /\ ever_cancelled

\* |x| < 0.1
WithinOneTick(x) == MagLess(x, Tenth)

\* C14 as stated: action_time is never below zero
C14_NeverNegative ==
    action_time[1] = 1 \/ (action_time[2] = 0 /\ action_time[3] = 0 /\ action_time[4] = 0)

\* C14, amended: action_time is always above -0.1: a tick is only taken from
\* a value above zero, and the value the expiring tick leaves, which is at
\* most zero and need not be zero, stays until a press arms the timeout again.
C14_NeverBelowOneTick ==
    [][ /\ IsPositive(action_time') \/ WithinOneTick(action_time')
        /\ ~IsPositive(action_time) =>
              \/ action_time' = action_time
              \/ action_time' = FloatOfInt(ACTION_TIMEOUT)
      ]_vars

\* the timeout has run out below zero and an idle poll has run since
C14_Witness ==
    /\ action_time[1] = -1
    /\ action_time # <<-1, 0, 0, 0>>
    /\ pc = "poll"
    /\ led = "pulse(0.1,0.1)"
    /\ armed = ACTION_TIMEOUT

\* C15: action_time is never set to 10 after start-up; every iteration of the
\* press loop sets it to 20, and it is exactly 20 when the release of a press
\* has been handled.
C15_PressRearmsToTwenty ==
    [][ /\ action_time' = FloatOfInt(ACTION_INITIAL_TIMEOUT) =>
              action_time = FloatOfInt(ACTION_INITIAL_TIMEOUT)
        /\ (pc = "poll" /\ pressed /\ pressed') =>
              action_time' = FloatOfInt(ACTION_TIMEOUT)
        /\ (pc = "poll" /\ button_down_start # None /\ pc' = "loop") =>
              action_time' = FloatOfInt(ACTION_TIMEOUT)
      ]_vars

\* the press that cancelled a countdown has been handled
C15_Witness ==
    /\ pc = "loop"
    /\ ever_cancelled
    /\ CurrentScreen = "INFO2"
    /\ action_time = FloatOfInt(ACTION_TIMEOUT)
    /\ ticks = 0

\* C16: an iteration of the press loop draws INFO when action_time is not
\* above zero, which only the first iteration of a press can find, and
\* otherwise draws nothing: no later iteration of the press replaces the
\* screen, nor does any iteration of a press begun with the timeout running.
C16_InfoOnFirstSampleOnly ==
    [][ (pc = "poll" /\ pressed /\ pressed') =>
            /\ ~IsPositive(action_time) =>
                  (button_down_start = None /\ oled' = Screen("INFO", 0))
            /\ IsPositive(action_time) => oled' = oled
            /\ button_down_start # None => oled' = oled
      ]_vars

\* a later sample of a press that began with the timeout run out
C16_Witness ==
    /\ pc = "poll"
    /\ pressed
    /\ menu_state = None
    /\ oled = Screen("INFO", 0)
    /\ PressDelta > SampleSleep + MaxJitter

\* C17: a main-loop iteration that finds the button released, with no press
\* sampled and no expiry (a tick that leaves action_time above zero, or an
\* idle poll), changes none of menu_state, action_cancel, button_down_start
\* and button_clicked, in its first half and in its second.
C17_NoOpPollChangesNothing ==
    [][ /\ (pc = "loop" /\ pc' = "poll" /\
            (IsPositive(action_time') \/ ~IsPositive(action_time))) =>
              UNCHANGED <<menu_state, action_cancel, button_down_start,
                          button_clicked, now>>
        /\ (pc = "poll" /\ ~pressed /\ button_down_start = None /\ pc' = "loop") =>
              UNCHANGED <<menu_state, action_cancel, button_down_start,
                          button_clicked, now, oled>>
      ]_vars

\* a no-op iteration has ended with the menu on a screen and the timeout running
C17_Witness ==
    /\ pc = "loop"
    /\ CurrentScreen = "CLOCK"
    /\ ticks = 3
    /\ ~pressed
    /\ chain = 3

\* C18: the first half of a main-loop iteration is the 0.1 s tick when
\* action_time is above zero and the disk poll with its LED update otherwise,
\* never both; after start-up the LED is only ever set by an idle poll made
\* with action_time not above zero.
C18_TickOrIdlePoll ==
    [][ /\ (pc = "loop" /\ pc' # "loop") =>
              IF IsPositive(action_time)
                THEN /\ action_time' = FloatSub(action_time, Tenth)
                     /\ ticks' = ticks + 1
                     /\ led' = led
                ELSE /\ action_time' = action_time
                     /\ ticks' = ticks
                     /\ led' \in {"pulse(0.1,0.1)", led_resting}
        /\ (led' # led /\ pc # "boot") => (pc = "loop" /\ ~IsPositive(action_time))
        /\ (ticks' = ticks + 1) => (pc = "loop" /\ IsPositive(action_time))
      ]_vars

\* an idle poll has set the LED pulsing, and a press has armed the timeout since
C18_Witness ==
    /\ led = "pulse(0.1,0.1)"
    /\ pc = "poll"
    /\ IsPositive(action_time)
    /\ ticks = 2

\* C19: at the top of the main loop button_down_start is None and
\* button_clicked is false, whatever presses, long presses and cancelled
\* countdowns came before; so the first sample of a press measures 0.
C19_PressRecordCleared ==
    pc = "loop" =>
        /\ button_down_start = None
        /\ ~button_clicked
        /\ PressDelta = 0

\* back at the top of the loop after a cancelled countdown, a new press begun
C19_Witness ==
    /\ pc = "loop"
    /\ ever_cancelled
    /\ pressed
    /\ button_down_start = None
    /\ ticks = 1

\* C20: menu_state is None or an index 0..4 of MENU, and is None whenever
\* action_time is not above zero.
C20_MenuStateValid ==
    /\ menu_state = None \/ menu_state \in 0 .. (Len(MENU) - 1)
    /\ ~IsPositive(action_time) => menu_state = None

\* the timeout armed by a press has run out after the menu was on a screen
C20_Witness ==
    /\ ~IsPositive(action_time)
    /\ armed = ACTION_TIMEOUT
    /\ menu_state = None
    /\ oled = Blank
    /\ pc = "poll"

============================================================================
